---- MODULE Spec2Model ----
(***************************************************************************)
(* Synchro-nice backend (server/main.py): upload of an audio file creates  *)
(* a session; WebSocket handlers start one production task per session,   *)
(* which slices the audio into chunks, feeds the analyzer and fills two    *)
(* bounded asyncio queues; the handlers drain the queues on client request *)
(* or on the 0.1 s receive timeout and tear the session down when they     *)
(* leave their loop.                                                       *)
(*                                                                         *)
(* asyncio is cooperative: a step of the model is the code a task runs     *)
(* between two suspension points (an await that really waits).  The value  *)
(* of "pc"/"task" names the await the task is suspended at.                *)
(***************************************************************************)
EXTENDS Integers, Sequences, FiniteSets, TLC

\* ------------------------------------------------------------- bounds
\* maxsize of the chunk queue and of the analysis queue, scaled down
ChunkQueueMax == 2
AnalysisQueueMax == 1
\* longest audio (in samples) an upload carries in SoloInit / in Init
MaxSamples == 6
MaxSamplesShared == 2
\* samples of the audio of each of two sessions served at once
MaxSamplesPair == 1
\* records added to a lone AudioAnalyzer, the first MaxFreeRecords of which
\* take every amplitude of Amplitudes
MaxWindowRecords == 27
MaxFreeRecords == 3
\* records added to a lone AudioAnalyzer, every one with every amplitude
MaxPatternRecords == 16
\* records added to a lone AudioAnalyzer, every one with every amplitude and
\* beat strength
MaxDropRecords == 5

\* ------------------------------------------------- program constants
\* chunk_counter % 5: an analysis every 5 chunks
AnalysisEvery == 5
\* AudioAnalyzer(analysis_window_size=25)
AnalysisWindowSize == 25
\* chunk_duration = 0.2 s, as the fraction 1/ChunkDurationInv
ChunkDurationInv == 5

SessionIds == {"s1", "s2"}
Conns == {"c1", "c2"}
\* sample rates of uploaded files; 4 Hz gives a window of int(0.2 * 4) = 0 samples
SampleRates == {4, 5, 10}
FileNames == {"a.mp3", "a.wav"}

\* str(e) of the exceptions the handler reports
ProductionFailureText == "feature extractor failed"
AttributeErrorText == "'dict' object has no attribute 'model_dump'"
JSONDecodeErrorText == "Expecting value: line 1 column 1 (char 0)"
\* the message of the handler for an unknown session id ("Sesión no encontrada")
SessionNotFoundText == "Sesion no encontrada"

VARIABLES
    current_sessions,      \* keys of the dict current_sessions
    session,               \* the session_data dict of every session id ever issued
    processed_audio_data,  \* the dict processed_audio_data
    session_dirs,          \* session ids whose directory audio_uploads/<id> exists
    conn,                  \* one websocket_endpoint coroutine per connection
    uuid_pool,             \* session ids uuid4() has not issued yet
    clients,               \* connections the clients will open
    talkers,               \* connections whose client sends messages
    audio_lens             \* sample counts of the files the clients will upload

vars == <<current_sessions, session, processed_audio_data, session_dirs, conn,
          uuid_pool, clients, talkers, audio_lens>>

\* ------------------------------------------------------------- values

\* what travels on a queue: a chunk, an analysis message, the marker, or the
\* error dict of the production task
Item(kind, ts, n, w, b) ==
    [kind |-> kind, timestamp |-> ts, chunks_analyzed |-> n,
     analysis_window_size |-> w, buffer_size |-> b]

NoTime == <<0, 1>>
END_OF_STREAM == Item("END_OF_STREAM", NoTime, 0, 0, 0)
ErrorPayload == Item("error", NoTime, 0, 0, 0)
NoItem == Item("None", NoTime, 0, 0, 0)

\* AudioChunkData: only the timestamp i / sample_rate is kept, as the pair <<i, sample_rate>>
AudioChunkData(i, sr) == Item("chunk", <<i, sr>>, 0, 0, 0)

\* a variant of AudioAnalysisMessage: chunks_analyzed leaves out the current chunk
AudioAnalysisMessageBefore(chunk, rel, counter) ==
    Item("analysis", chunk.timestamp, counter - 1, rel.analysis_window_size, rel.buffer_size)

\* AudioAnalysisMessage(current_chunk, relationships, analysis_timestamp, chunks_analyzed)
AudioAnalysisMessage(chunk, rel, counter) ==
    Item("analysis", chunk.timestamp, counter, rel.analysis_window_size, rel.buffer_size)

\* a.timestamp < b.timestamp for timestamps i / sample_rate
TimeLess(a, b) == a[1] * b[2] < b[1] * a[2]

\* chunk_samples = int(chunk_duration * sample_rate)
ChunkSamples(sr) == sr \div ChunkDurationInv

\* total_chunks without the window of the remainder
TotalChunksFloor(len, sr) == len \div ChunkSamples(sr)

\* len(audio_data) // chunk_samples + (1 if len(audio_data) % chunk_samples else 0)
TotalChunks(len, sr) ==
    (len \div ChunkSamples(sr)) + (IF len % ChunkSamples(sr) # 0 THEN 1 ELSE 0)

\* AudioProcessor.process_chunks: the number of windows it yields,
\* for i in range(0, total_samples, chunk_samples)
RECURSIVE SequencerYields(_, _, _)
SequencerYields(i, total_samples, chunk_samples) ==
    IF i < total_samples
    THEN 1 + SequencerYields(i + chunk_samples, total_samples, chunk_samples)
    ELSE 0

\* asyncio.Queue() without maxsize: never full
NeverFull(q, maxsize) == FALSE

\* asyncio.Queue.full()
Full(q, maxsize) == Len(q) >= maxsize

\* a plain list in place of the deque: nothing is evicted
ListAppend(d, x, maxlen) == Append(d, x)

\* deque(maxlen).append
DequeAppend(d, x, maxlen) ==
    IF Len(d) >= maxlen THEN Append(Tail(d), x) ELSE Append(d, x)

\* the session_data dict of a session id not uploaded yet, with the task's
\* locals (gen_i, chunk_counter, chunk_data, analysis_message) and the history
\* of the queues: what the task has put on each, whether a handler has taken
\* the marker off each; the number of calls of asyncio.create_task, and the
\* await at which CancelledError reached the task; the PatternAnalysis last
\* computed on the analyzer and the drop_probability last predicted, in tenths
NoSession ==
    [audio_len |-> 0, sample_rate |-> 0,
     full_buffer |-> <<>>, window_buffer |-> <<>>,
     status |-> "none", progress |-> <<0, 1>>, total_chunks |-> 0, processed_chunks |-> 0,
     chunk_queue |-> <<>>, analysis_queue |-> <<>>,
     task |-> "None", must_cancel |-> FALSE,
     gen_i |-> 0, chunk_counter |-> 0, chunk_data |-> NoItem, analysis_message |-> NoItem,
     chunk_puts |-> <<>>, analysis_puts |-> <<>>,
     chunk_end_taken |-> FALSE, analysis_end_taken |-> FALSE,
     tasks_created |-> 0, cancelled_at |-> "None",
     patterns |-> [detected_patterns |-> <<>>, pattern_strength |-> 0,
                   cycle_length |-> "None", pattern_confidence |-> <<0, 1>>],
     drop_probability |-> 0]

\* a session_data dict stored with a production task already created
NewSessionWithTask(len, sr) ==
    [NoSession EXCEPT !.audio_len = len, !.sample_rate = sr,
                      !.status = "processing", !.progress = <<0, 1>>,
                      !.total_chunks = TotalChunks(len, sr),
                      !.task = "start", !.tasks_created = 1]

\* the session_data dict upload_audio stores
NewSession(len, sr) ==
    [NoSession EXCEPT !.audio_len = len, !.sample_rate = sr,
                      !.status = "ready", !.progress = <<0, 1>>,
                      !.total_chunks = TotalChunks(len, sr)]

\* the local state of a connection handler and what it has sent to its client
NoConn ==
    [pc |-> "idle", sid |-> "s1", bound |-> FALSE, took |-> "None",
     chunks |-> <<>>, analyses |-> <<>>, statuses |-> {}, errors |-> {},
     raised |-> "none", started |-> FALSE]

\* states of session_data["task"] in which Task.done() is true
TaskDone == {"finished", "finished_after_error", "cancelled", "returned"}

\* the program state the steps below transform
State ==
    [current_sessions |-> current_sessions, session |-> session,
     processed_audio_data |-> processed_audio_data,
     session_dirs |-> session_dirs, conn |-> conn]

Becomes(g) ==
    /\ current_sessions' = g.current_sessions
    /\ session' = g.session
    /\ processed_audio_data' = g.processed_audio_data
    /\ session_dirs' = g.session_dirs
    /\ conn' = g.conn
    /\ UNCHANGED <<uuid_pool, clients, talkers, audio_lens>>

\* ------------------------------------------- AudioAnalyzer (services)

\* AudioAnalyzer.add_chunk
add_chunk(r, chunk) ==
    [r EXCEPT !.full_buffer = Append(@, chunk),
              !.window_buffer = DequeAppend(@, chunk, AnalysisWindowSize)]

\* AudioAnalyzer.analyze_relationships: None below 2 chunks in the window,
\* else the report, of which the two sizes are kept
analyze_relationships(r) ==
    IF Len(r.window_buffer) < 2
    THEN [none |-> TRUE, analysis_window_size |-> 0, buffer_size |-> 0]
    ELSE [none |-> FALSE, analysis_window_size |-> Len(r.window_buffer),
          buffer_size |-> Len(r.full_buffer)]

\* an AudioChunkData of the extractor: its timestamp n * 0.2, its amplitude,
\* brightness and beat strength (in tenths where they are compared with
\* thresholds)
FeatureRecord(n, a) ==
    [timestamp |-> <<n, ChunkDurationInv>>, amplitude |-> a, brightness |-> 0,
     beat_strength |-> 0]

\* sum of a sequence of integers (np.mean and np.std are stated with it)
RECURSIVE Sum(_)
Sum(q) == IF q = <<>> THEN 0 ELSE Head(q) + Sum(Tail(q))

\* the sorted sequence of a set of integers
RECURSIVE Sorted(_)
Sorted(S) ==
    IF S = {} THEN <<>>
    ELSE LET m == CHOOSE x \in S : \A y \in S : x <= y IN <<m>> \o Sorted(S \ {m})

\* scipy.signal.find_peaks(amplitudes, height=np.mean(amplitudes), distance=2):
\* the samples, or the middle of the flat stretches, both neighbours of which
\* are lower, and which reach the mean; the first and the last sample are no
\* peaks; such peaks are two samples apart at least. Indices count from 0.
find_peaks(a) ==
    LET n == Len(a)
        flat(l, r) == \A k \in l .. r : a[k] = a[l]
        tops == {<<l, r>> \in (2 .. n - 1) \X (2 .. n - 1) :
                    l <= r /\ flat(l, r) /\ a[l - 1] < a[l] /\ a[r + 1] < a[r]}
    IN  Sorted({(lr[1] + lr[2]) \div 2 - 1 : lr \in {x \in tops : n * a[x[1]] >= Sum(a)}})

\* self.full_buffer[-40:]
LastRecords(q, k) == IF Len(q) <= k THEN q ELSE SubSeq(q, Len(q) - k + 1, Len(q))

\* AudioAnalyzer._detect_cyclic_patterns past its test of the length: the
\* peaks of the last 40 amplitudes, and one rhythmic pattern when there are 3
\* peaks or more: period = mean distance * 0.2, strength = 1.0 when the
\* standard deviation of the distances is below 1.0 (variance below 1)
RhythmicPatterns(full_buffer) ==
    LET last == LastRecords(full_buffer, 40)
        peaks == find_peaks([i \in 1 .. Len(last) |-> last[i].amplitude])
        distances == [i \in 1 .. Len(peaks) - 1 |-> peaks[i + 1] - peaks[i]]
        n == Len(distances)
    IN  IF Len(peaks) >= 3 /\ n > 1
        THEN <<[type |-> "rhythmic",
                period |-> <<Sum(distances), n * ChunkDurationInv>>,
                strength |-> IF n * Sum([i \in 1 .. n |-> distances[i] * distances[i]])
                                    - Sum(distances) * Sum(distances) < n * n
                             THEN 1 ELSE 0,
                last_occurrence |-> <<peaks[Len(peaks)], ChunkDurationInv>>]>>
        ELSE <<>>

\* _detect_cyclic_patterns without its test of the length of the history
DetectWithoutMinimum(full_buffer) == RhythmicPatterns(full_buffer)

\* AudioAnalyzer._detect_cyclic_patterns: nothing below 16 records
detect_cyclic_patterns(full_buffer) ==
    IF Len(full_buffer) < 16 THEN <<>> ELSE RhythmicPatterns(full_buffer)

\* AudioAnalyzer._analyze_patterns: the empty analysis below 8 records, else
\* the patterns, their mean strength (_calculate_pattern_strength), the cycle
\* length int(period / 0.2) of the strongest (_find_dominant_cycle_length) and
\* the confidence strength_sum / count * min(count / 3, 1)
\* (_calculate_pattern_confidence); there is one pattern at most
analyze_patterns(full_buffer) ==
    LET patterns == detect_cyclic_patterns(full_buffer) IN
    IF Len(full_buffer) < 8 \/ patterns = <<>>
    THEN [detected_patterns |-> <<>>, pattern_strength |-> 0,
          cycle_length |-> "None", pattern_confidence |-> <<0, 1>>]
    ELSE [detected_patterns |-> patterns,
          pattern_strength |-> patterns[1].strength,
          cycle_length |-> (patterns[1].period[1] * ChunkDurationInv) \div patterns[1].period[2],
          pattern_confidence |-> IF patterns[1].strength = 0 THEN <<0, 1>> ELSE <<1, 3>>]

\* AudioAnalyzer._calculate_trend > 0.2 for y over x = 0 .. n-1: the slope of
\* the linear regression, times n, over the range of y, clipped to [-1, 1];
\* 0.0 for fewer than 2 values or a range of 0.  The slope is
\* (n Sxy - Sx Sy) / (n Sxx - Sx Sx), whose denominator is positive.
TrendExceedsFifth(y) ==
    LET n == Len(y)
        x == [i \in 1 .. n |-> i - 1]
        Sxy == Sum([i \in 1 .. n |-> x[i] * y[i]])
        Sxx == Sum([i \in 1 .. n |-> x[i] * x[i]])
        hi == CHOOSE v \in {y[i] : i \in 1 .. n} : \A i \in 1 .. n : y[i] <= v
        lo == CHOOSE v \in {y[i] : i \in 1 .. n} : \A i \in 1 .. n : v <= y[i]
    IN  /\ n >= 2
        /\ hi # lo
        /\ 5 * n * (n * Sxy - Sum(x) * Sum(y)) > (hi - lo) * (n * Sxx - Sum(x) * Sum(x))

\* AudioAnalyzer._calculate_overall_energy_trend > 0.2: the trend of
\* (amplitude + brightness + beat_strength) / 3
EnergyTrendExceedsFifth(chunks) ==
    TrendExceedsFifth([i \in 1 .. Len(chunks) |->
                          chunks[i].amplitude + chunks[i].brightness + chunks[i].beat_strength])

\* the indicators of a drop, in tenths: 0.3 when the mean amplitude of the
\* last 3 records exceeds 0.7, 0.3 when their mean beat strength exceeds 0.6,
\* 0.4 when the energy trend exceeds 0.2; np.clip(.., 0.0, 1.0) changes nothing
DropIndicators(chunks) ==
    LET recent == LastRecords(chunks, 3) IN
    (IF Sum([i \in 1 .. Len(recent) |-> recent[i].amplitude]) > 7 * Len(recent)
     THEN 3 ELSE 0)
    + (IF Sum([i \in 1 .. Len(recent) |-> recent[i].beat_strength]) > 6 * Len(recent)
       THEN 3 ELSE 0)
    + (IF EnergyTrendExceedsFifth(chunks) THEN 4 ELSE 0)

\* AudioAnalyzer._calculate_drop_probability: 0.0 below 5 records
calculate_drop_probability(chunks) ==
    IF Len(chunks) < 5 THEN 0 ELSE DropIndicators(chunks)

\* AudioAnalyzer._make_predictions, its drop_probability: the default 0.0
\* below 3 records in the window
make_predictions(window_buffer) ==
    IF Len(window_buffer) < 3 THEN 0 ELSE calculate_drop_probability(window_buffer)

\* ------------------------------------------------- _processing_task
\* Each operator is the code from one statement to the next suspension of
\* the task: a put on a full queue, the sleep, or the end of the coroutine.

Sess(g, s) == g.session[s]
SetSess(g, s, r) == [g EXCEPT !.session[s] = r]

\* a variant of TaskPutEndAnalysis: the second marker goes to the chunk queue
\* again
TaskPutEndChunkTwice(g, s) ==
    LET r == Sess(g, s) IN
    SetSess(g, s, [r EXCEPT !.chunk_queue = Append(@, END_OF_STREAM),
                            !.chunk_puts = Append(@, END_OF_STREAM),
                            !.task = "finished"])

\* await analysis_queue.put("END_OF_STREAM"), then the coroutine returns
TaskPutEndAnalysis(g, s) ==
    LET r == Sess(g, s) IN
    IF Full(r.analysis_queue, AnalysisQueueMax)
    THEN SetSess(g, s, [r EXCEPT !.task = "put_end_analysis"])
    ELSE SetSess(g, s, [r EXCEPT !.analysis_queue = Append(@, END_OF_STREAM),
                                 !.analysis_puts = Append(@, END_OF_STREAM),
                                 !.task = "finished"])

\* await chunk_queue.put("END_OF_STREAM")
TaskPutEndChunk(g, s) ==
    LET r == Sess(g, s) IN
    IF Full(r.chunk_queue, ChunkQueueMax)
    THEN SetSess(g, s, [r EXCEPT !.task = "put_end_chunk"])
    ELSE TaskPutEndAnalysis(
             SetSess(g, s, [r EXCEPT !.chunk_queue = Append(@, END_OF_STREAM),
                                     !.chunk_puts = Append(@, END_OF_STREAM)]), s)

\* await analysis_queue.put(analysis_message) of the final analysis
TaskPutFinalAnalysis(g, s) ==
    LET r == Sess(g, s) IN
    IF Full(r.analysis_queue, AnalysisQueueMax)
    THEN SetSess(g, s, [r EXCEPT !.task = "put_final_analysis"])
    ELSE TaskPutEndChunk(
             SetSess(g, s, [r EXCEPT !.analysis_queue = Append(@, r.analysis_message),
                                     !.analysis_puts = Append(@, r.analysis_message)]), s)

\* the final analysis when chunks are left unanalysed, after the loop
TaskFinalAnalysis(g, s) ==
    LET r == Sess(g, s)
        rel == analyze_relationships(r)
        last_chunk == g.processed_audio_data[s].chunks[Len(g.processed_audio_data[s].chunks)]
    IN  IF r.chunk_counter % AnalysisEvery # 0 /\ ~rel.none /\ r.chunk_counter > 0
        THEN TaskPutFinalAnalysis(
                 SetSess(g, s, [r EXCEPT !.analysis_message =
                                   AudioAnalysisMessage(last_chunk, rel, r.chunk_counter)]), s)
        ELSE TaskPutEndChunk(g, s)

\* a variant of TaskUpdateProgress: the record is counted twice
TaskUpdateProgressTwice(g, s) ==
    LET r == Sess(g, s) IN
    SetSess(g, s, [r EXCEPT !.processed_chunks = @ + 2,
                            !.progress = <<r.processed_chunks + 2, r.total_chunks>>,
                            !.task = "sleep"])

\* status.processed_chunks += 1, progress, await asyncio.sleep(0.001)
TaskUpdateProgress(g, s) ==
    LET r == Sess(g, s) IN
    SetSess(g, s, [r EXCEPT !.processed_chunks = @ + 1,
                            !.progress = <<r.processed_chunks + 1, r.total_chunks>>,
                            !.task = "sleep"])

\* await analysis_queue.put(analysis_message) inside the loop
TaskPutAnalysis(g, s) ==
    LET r == Sess(g, s) IN
    IF Full(r.analysis_queue, AnalysisQueueMax)
    THEN SetSess(g, s, [r EXCEPT !.task = "put_analysis"])
    ELSE TaskUpdateProgress(
             SetSess(g, s, [r EXCEPT !.analysis_queue = Append(@, r.analysis_message),
                                     !.analysis_puts = Append(@, r.analysis_message)]), s)

\* chunk_counter += 1 and the analysis every 5 chunks
TaskCountChunk(g, s) ==
    LET r == [Sess(g, s) EXCEPT !.chunk_counter = @ + 1]
        rel == analyze_relationships(r)
    IN  IF r.chunk_counter % AnalysisEvery = 0 /\ ~rel.none
        THEN TaskPutAnalysis(
                 SetSess(g, s, [r EXCEPT !.analysis_message =
                                   AudioAnalysisMessage(r.chunk_data, rel, r.chunk_counter)]), s)
        ELSE TaskUpdateProgress(SetSess(g, s, r), s)

\* a variant of TaskPutChunk: the chunk goes to the front of the queue
TaskPutChunkInFront(g, s) ==
    LET r == Sess(g, s) IN
    IF Full(r.chunk_queue, ChunkQueueMax)
    THEN SetSess(g, s, [r EXCEPT !.task = "put_chunk"])
    ELSE TaskCountChunk(
             SetSess(g, s, [r EXCEPT !.chunk_queue = <<r.chunk_data>> \o @,
                                     !.chunk_puts = Append(@, r.chunk_data)]), s)

\* await chunk_queue.put(chunk_data)
TaskPutChunk(g, s) ==
    LET r == Sess(g, s) IN
    IF Full(r.chunk_queue, ChunkQueueMax)
    THEN SetSess(g, s, [r EXCEPT !.task = "put_chunk"])
    ELSE TaskCountChunk(
             SetSess(g, s, [r EXCEPT !.chunk_queue = Append(@, r.chunk_data),
                                     !.chunk_puts = Append(@, r.chunk_data)]), s)

\* await analysis_queue.put({"type": "error", ...}), then the coroutine returns
TaskPutErrorAnalysis(g, s) ==
    LET r == Sess(g, s) IN
    IF Full(r.analysis_queue, AnalysisQueueMax)
    THEN SetSess(g, s, [r EXCEPT !.task = "err_put_analysis"])
    ELSE SetSess(g, s, [r EXCEPT !.analysis_queue = Append(@, ErrorPayload),
                                 !.analysis_puts = Append(@, ErrorPayload),
                                 !.task = "finished_after_error"])

\* except Exception: await chunk_queue.put({"type": "error", ...})
TaskExcept(g, s) ==
    LET r == Sess(g, s) IN
    IF Full(r.chunk_queue, ChunkQueueMax)
    THEN SetSess(g, s, [r EXCEPT !.task = "err_put_chunk"])
    ELSE TaskPutErrorAnalysis(
             SetSess(g, s, [r EXCEPT !.chunk_queue = Append(@, ErrorPayload),
                                     !.chunk_puts = Append(@, ErrorPayload)]), s)

\* a variant of TaskStoreChunk: the analyzer's history does not get the chunk
TaskStoreChunkOneHistory(g, s, chunk) ==
    LET r == Sess(g, s)
        stored == [g EXCEPT !.processed_audio_data[s].chunks = Append(@, chunk)]
    IN  IF ~g.processed_audio_data[s].present
        THEN TaskExcept(g, s)
        ELSE TaskPutChunk(SetSess(stored, s, [r EXCEPT !.chunk_data = chunk]), s)

\* the body of the for loop up to the put: both histories get the chunk
TaskStoreChunk(g, s, chunk) ==
    LET r == Sess(g, s)
        stored == [g EXCEPT !.processed_audio_data[s].chunks = Append(@, chunk)]
    IN  IF ~g.processed_audio_data[s].present
        THEN TaskExcept(g, s)   \* KeyError
        ELSE TaskPutChunk(SetSess(stored, s, [add_chunk(r, chunk) EXCEPT !.chunk_data = chunk]), s)

\* AudioProcessor.process_chunks: the next window of range(0, total_samples,
\* chunk_samples), which _analyze_chunk turns into a record or fails on
process_chunks(g, s, extractor_ok) ==
    LET r == Sess(g, s) IN
    IF r.gen_i < r.audio_len
    THEN IF extractor_ok
         THEN TaskStoreChunk(
                  SetSess(g, s, [r EXCEPT !.gen_i = @ + ChunkSamples(r.sample_rate)]),
                  s, AudioChunkData(r.gen_i, r.sample_rate))
         ELSE TaskExcept(g, s)
    ELSE TaskFinalAnalysis(g, s)

\* the first step of the coroutine
TaskStart(g, s, extractor_ok) ==
    IF s \notin g.current_sessions
    THEN SetSess(g, s, [Sess(g, s) EXCEPT !.task = "returned"])
    ELSE process_chunks(g, s, extractor_ok)

\* the task is woken at the await it is suspended at
TaskResume(g, s, extractor_ok) ==
    LET at == Sess(g, s).task IN
    CASE at = "start" -> TaskStart(g, s, extractor_ok)
      [] at = "sleep" -> process_chunks(g, s, extractor_ok)
      [] at = "put_chunk" -> TaskPutChunk(g, s)
      [] at = "put_analysis" -> TaskPutAnalysis(g, s)
      [] at = "put_final_analysis" -> TaskPutFinalAnalysis(g, s)
      [] at = "put_end_chunk" -> TaskPutEndChunk(g, s)
      [] at = "put_end_analysis" -> TaskPutEndAnalysis(g, s)
      [] at = "err_put_chunk" -> TaskExcept(g, s)
      [] at = "err_put_analysis" -> TaskPutErrorAnalysis(g, s)
      [] OTHER -> g

\* the awaits of the task, and whether the awaited thing has happened
TaskAwaits == {"start", "sleep", "put_chunk", "put_analysis", "put_final_analysis",
               "put_end_chunk", "put_end_analysis", "err_put_chunk", "err_put_analysis"}

TaskCanResume(r) ==
    /\ r.task \in TaskAwaits
    /\ r.task \in {"put_chunk", "put_end_chunk", "err_put_chunk"}
          => ~Full(r.chunk_queue, ChunkQueueMax)
    /\ r.task \in {"put_analysis", "put_final_analysis", "put_end_analysis", "err_put_analysis"}
          => ~Full(r.analysis_queue, AnalysisQueueMax)

\* CancelledError caught by `except Exception` (it was a subclass of Exception
\* before Python 3.8): the cancelled task reports an error on the queues
TaskCancelledAsException(g, s) == TaskExcept(g, s)

\* Task.cancel() followed by the task's next step: CancelledError is thrown
\* at the await, the except clause re-raises it
TaskThrowCancelled(g, s) ==
    SetSess(g, s, [Sess(g, s) EXCEPT !.task = "cancelled", !.cancelled_at = Sess(g, s).task])


\* ------------------------------------------------- websocket_endpoint
\* A message counts as sent when send_text is called; the handler is then
\* suspended in the send (its pc names the send) unless nothing but the next
\* receive_text follows, in which case it is at "recv" at once.

Conn(g, c) == g.conn[c]
SetPc(g, c, pc) == [g EXCEPT !.conn[c].pc = pc]

\* send_text(WebSocketMessage(type="status", data=status.model_dump()))
SendStatus(g, c) ==
    [g EXCEPT !.conn[c].statuses = @ \cup {Sess(g, Conn(g, c).sid).status}]

\* send_text(WebSocketMessage(type="chunk_data", ...))
SendChunk(g, c, item) == [g EXCEPT !.conn[c].chunks = Append(@, item.timestamp)]

\* send_text(WebSocketMessage(type="audio_analysis", ...))
SendAnalysis(g, c, item) == [g EXCEPT !.conn[c].analyses = Append(@, item.chunks_analyzed)]

\* send_text(WebSocketMessage(type="error", data={"message": str(e)}))
SendError(g, c, text) == [g EXCEPT !.conn[c].errors = @ \cup {text}]

\* status.status = "completed" followed by the status message
AnnounceCompleted(g, c) ==
    SendStatus([g EXCEPT !.session[Conn(g, c).sid].status = "completed"], c)

\* chunk_queue.get_nowait() of a non-empty queue
TakeChunk(g, c) ==
    LET sid == Conn(g, c).sid
        q == Sess(g, sid).chunk_queue
    IN  [g EXCEPT !.session[sid].chunk_queue = Tail(q),
                  !.session[sid].chunk_end_taken = @ \/ Head(q).kind = "END_OF_STREAM",
                  !.conn[c].took = Head(q).kind]

\* analysis_queue.get_nowait() of a non-empty queue
TakeAnalysis(g, c) ==
    LET sid == Conn(g, c).sid
        q == Sess(g, sid).analysis_queue
    IN  [g EXCEPT !.session[sid].analysis_queue = Tail(q),
                  !.session[sid].analysis_end_taken = @ \/ Head(q).kind = "END_OF_STREAM",
                  !.conn[c].took = Head(q).kind]

\* a teardown that clears both registries instead of deleting its own key
CleanupTailClearsAll(g, c) ==
    LET sid == Conn(g, c).sid
        nodir == [g EXCEPT !.session_dirs = @ \ {sid}]
    IN  [nodir EXCEPT !.current_sessions = {},
                      !.processed_audio_data =
                          [s \in SessionIds |-> [present |-> FALSE, chunks |-> <<>>]],
                      !.conn[c].pc = "closed"]

\* _cleanup_session after the await of the task: directory, registries
CleanupTail(g, c) ==
    LET sid == Conn(g, c).sid
        nodir == [g EXCEPT !.session_dirs = @ \ {sid}]
    IN  IF sid \notin g.current_sessions
        THEN [nodir EXCEPT !.conn[c].raised = "KeyError", !.conn[c].pc = "closed"]
        ELSE [nodir EXCEPT !.current_sessions = @ \ {sid},
                           !.processed_audio_data[sid] = [present |-> FALSE, chunks |-> <<>>],
                           !.conn[c].pc = "closed"]

\* _cleanup_session without its guard `if session_id in current_sessions`
CleanupUnguarded(g, c) ==
    LET sid == Conn(g, c).sid
        task == Sess(g, sid).task
    IN  IF sid \in g.current_sessions /\ task # "None" /\ task \notin TaskDone
        THEN [g EXCEPT !.session[sid].must_cancel = TRUE,
                       !.conn[c].pc = "cleanup_await_task"]
        ELSE CleanupTail(g, c)

\* finally: await _cleanup_session(session_id), up to `await task`
Cleanup(g, c) ==
    LET sid == Conn(g, c).sid
        task == Sess(g, sid).task
    IN  IF sid \in g.current_sessions
        THEN IF task # "None" /\ task \notin TaskDone
             THEN [g EXCEPT !.session[sid].must_cancel = TRUE,
                            !.conn[c].pc = "cleanup_await_task"]
             ELSE CleanupTail(g, c)
        ELSE SetPc(g, c, "closed")

\* except Exception as e: the error message, then finally
HandlerExcept(g, c, text) == SetPc(SendError(g, c, text), c, "send_error")

\* if session_data["task"].done() and both queues are empty: completed, break
FinalCheck(g, c) ==
    LET r == Sess(g, Conn(g, c).sid) IN
    IF r.task \in TaskDone /\ r.chunk_queue = <<>> /\ r.analysis_queue = <<>>
    THEN SetPc(AnnounceCompleted(g, c), c, "t_done")
    ELSE SetPc(g, c, "recv")

\* a variant of PutBackAnalysisOnTimeout: the marker is put back on the chunk
\* queue
PutBackOnWrongQueue(g, c) ==
    LET sid == Conn(g, c).sid IN
    IF Full(Sess(g, sid).chunk_queue, ChunkQueueMax)
    THEN SetPc(g, c, "t_put_end_analysis")
    ELSE FinalCheck([g EXCEPT !.session[sid].chunk_queue = Append(@, END_OF_STREAM)], c)

\* await analysis_queue.put("END_OF_STREAM") of the timeout branch, then break
PutBackAnalysisOnTimeout(g, c) ==
    LET sid == Conn(g, c).sid IN
    IF Full(Sess(g, sid).analysis_queue, AnalysisQueueMax)
    THEN SetPc(g, c, "t_put_end_analysis")
    ELSE FinalCheck([g EXCEPT !.session[sid].analysis_queue = Append(@, END_OF_STREAM)], c)

\* while not analysis_queue.empty(): one turn of the loop of the timeout branch
DrainAnalysis(g, c) ==
    LET sid == Conn(g, c).sid
        q == Sess(g, sid).analysis_queue
        got == TakeAnalysis(g, c)
    IN  IF q = <<>> THEN FinalCheck(g, c)
        ELSE IF Head(q).kind = "END_OF_STREAM"
             THEN SetPc(AnnounceCompleted(got, c), c, "t_end_analysis")
        ELSE IF Head(q).kind = "error"
             THEN HandlerExcept(got, c, AttributeErrorText)
        ELSE SetPc(SendAnalysis(got, c, Head(q)), c, "t_send_status")

\* a variant of PutBackChunkOnTimeout: the marker of the chunk queue is put
\* on the analysis queue
PutBackChunkOnAnalysisQueue(g, c) ==
    LET sid == Conn(g, c).sid IN
    IF Full(Sess(g, sid).analysis_queue, AnalysisQueueMax)
    THEN SetPc(g, c, "t_put_end_chunk")
    ELSE DrainAnalysis([g EXCEPT !.session[sid].analysis_queue = Append(@, END_OF_STREAM)], c)

\* await chunk_queue.put("END_OF_STREAM") of the timeout branch, then break
PutBackChunkOnTimeout(g, c) ==
    LET sid == Conn(g, c).sid IN
    IF Full(Sess(g, sid).chunk_queue, ChunkQueueMax)
    THEN SetPc(g, c, "t_put_end_chunk")
    ELSE DrainAnalysis([g EXCEPT !.session[sid].chunk_queue = Append(@, END_OF_STREAM)], c)

\* while not chunk_queue.empty(): one turn of the loop of the timeout branch
DrainChunks(g, c) ==
    LET sid == Conn(g, c).sid
        q == Sess(g, sid).chunk_queue
        got == TakeChunk(g, c)
    IN  IF q = <<>> THEN DrainAnalysis(g, c)
        ELSE IF Head(q).kind = "END_OF_STREAM"
             THEN SetPc(AnnounceCompleted(got, c), c, "t_end_chunk")
        ELSE IF Head(q).kind = "error"
             THEN HandlerExcept(got, c, AttributeErrorText)
        ELSE SetPc(SendChunk(got, c, Head(q)), c, "t_chunk")

\* await chunk_queue.put("END_OF_STREAM") of get_chunk, then break
PutBackChunkOnRequest(g, c) ==
    LET sid == Conn(g, c).sid IN
    IF Full(Sess(g, sid).chunk_queue, ChunkQueueMax)
    THEN SetPc(g, c, "req_put_end_chunk")
    ELSE Cleanup([g EXCEPT !.session[sid].chunk_queue = Append(@, END_OF_STREAM)], c)

\* action == "get_chunk"
GetChunk(g, c) ==
    LET sid == Conn(g, c).sid
        q == Sess(g, sid).chunk_queue
        got == TakeChunk(g, c)
    IN  IF q = <<>> THEN g
        ELSE IF Head(q).kind = "END_OF_STREAM"
             THEN SetPc(AnnounceCompleted(got, c), c, "req_end_chunk")
        ELSE IF Head(q).kind = "error"
             THEN HandlerExcept(got, c, AttributeErrorText)
        ELSE SendChunk(got, c, Head(q))

\* await analysis_queue.put("END_OF_STREAM") of get_analysis, then break
PutBackAnalysisOnRequest(g, c) ==
    LET sid == Conn(g, c).sid IN
    IF Full(Sess(g, sid).analysis_queue, AnalysisQueueMax)
    THEN SetPc(g, c, "req_put_end_analysis")
    ELSE Cleanup([g EXCEPT !.session[sid].analysis_queue = Append(@, END_OF_STREAM)], c)

\* action == "get_analysis"
GetAnalysis(g, c) ==
    LET sid == Conn(g, c).sid
        q == Sess(g, sid).analysis_queue
        got == TakeAnalysis(g, c)
    IN  IF q = <<>> THEN g
        ELSE IF Head(q).kind = "END_OF_STREAM"
             THEN SetPc(AnnounceCompleted(got, c), c, "req_end_analysis")
        ELSE IF Head(q).kind = "error"
             THEN HandlerExcept(got, c, AttributeErrorText)
        ELSE SetPc(SendAnalysis(got, c, Head(q)), c, "req_send_status")

\* a variant of Dispatch: the two branches are exchanged
DispatchExchanged(g, c, action) ==
    IF action = "get_chunk" THEN GetAnalysis(g, c)
    ELSE IF action = "get_analysis" THEN GetChunk(g, c)
    ELSE g

\* the if/elif on message_json.get("action"); any other action falls through
Dispatch(g, c, action) ==
    IF action = "get_chunk" THEN GetChunk(g, c)
    ELSE IF action = "get_analysis" THEN GetAnalysis(g, c)
    ELSE g

\* the handler continues after the await named by its pc
HandlerResume(g, c) ==
    LET at == Conn(g, c).pc IN
    CASE at = "t_chunk" -> DrainChunks(g, c)
      [] at \in {"t_end_chunk", "t_put_end_chunk"} -> PutBackChunkOnTimeout(g, c)
      [] at = "t_send_status" -> SetPc(SendStatus(g, c), c, "t_analysis")
      [] at = "t_analysis" -> DrainAnalysis(g, c)
      [] at \in {"t_end_analysis", "t_put_end_analysis"} -> PutBackAnalysisOnTimeout(g, c)
      [] at = "t_done" -> Cleanup(g, c)
      [] at \in {"req_end_chunk", "req_put_end_chunk"} -> PutBackChunkOnRequest(g, c)
      [] at = "req_send_status" -> SetPc(SendStatus(g, c), c, "recv")
      [] at \in {"req_end_analysis", "req_put_end_analysis"} -> PutBackAnalysisOnRequest(g, c)
      [] at = "send_error" -> Cleanup(g, c)
      [] at = "cleanup_await_task" -> CleanupTail(g, c)
      [] OTHER -> g

\* the awaits of a send_text inside the try block
SendAwaits == {"t_chunk", "t_end_chunk", "t_send_status", "t_analysis", "t_end_analysis",
               "t_done", "req_end_chunk", "req_send_status", "req_end_analysis"}

HandlerAwaits == SendAwaits \cup {"t_put_end_chunk", "t_put_end_analysis", "req_put_end_chunk",
                                  "req_put_end_analysis", "send_error", "cleanup_await_task"}

HandlerCanResume(g, c) ==
    LET k == Conn(g, c)
        r == Sess(g, k.sid)
    IN  /\ k.pc \in HandlerAwaits
        /\ k.pc \in {"t_put_end_chunk", "req_put_end_chunk"} => ~Full(r.chunk_queue, ChunkQueueMax)
        /\ k.pc \in {"t_put_end_analysis", "req_put_end_analysis"}
              => ~Full(r.analysis_queue, AnalysisQueueMax)
        /\ k.pc = "cleanup_await_task" => r.task \in TaskDone

\* a variant of Bind: the status is reset on every connection, not only by the
\* one that creates the task
\* Bind starting a new production task whenever the previous one is over
BindRestartsDoneTask(g, c, sid) ==
    LET r == Sess(g, sid)
        bound == [g EXCEPT !.conn[c].sid = sid, !.conn[c].bound = TRUE, !.conn[c].pc = "recv"]
    IN  IF sid \notin g.current_sessions
        THEN SetPc(SendError([g EXCEPT !.conn[c].sid = sid], c, SessionNotFoundText), c, "closed")
        ELSE IF r.task = "None" \/ r.task \in TaskDone
             THEN SendStatus(SetSess([bound EXCEPT !.conn[c].started = TRUE], sid,
                                     [r EXCEPT !.task = "start",
                                               !.tasks_created = @ + 1,
                                               !.status = "processing"]), c)
             ELSE bound

\* Bind returning nothing after the error of an unknown session id, so that
\* the handler goes on into its serving loop
BindNoReturn(g, c, sid) ==
    LET r == Sess(g, sid)
        bound == [g EXCEPT !.conn[c].sid = sid, !.conn[c].bound = TRUE, !.conn[c].pc = "recv"]
    IN  IF sid \notin g.current_sessions
        THEN SetPc(SendError(bound, c, SessionNotFoundText), c, "recv")
        ELSE IF r.task = "None"
             THEN SendStatus(SetSess([bound EXCEPT !.conn[c].started = TRUE], sid,
                                     [r EXCEPT !.task = "start",
                                               !.tasks_created = @ + 1,
                                               !.status = "processing"]), c)
             ELSE bound

BindResetsStatus(g, c, sid) ==
    LET r == Sess(g, sid)
        bound == [g EXCEPT !.conn[c].sid = sid, !.conn[c].bound = TRUE, !.conn[c].pc = "recv"]
    IN  IF sid \notin g.current_sessions
        THEN SetPc(SendError([g EXCEPT !.conn[c].sid = sid], c, SessionNotFoundText), c, "closed")
        ELSE SendStatus(SetSess(bound, sid,
                                [r EXCEPT !.task = IF @ = "None" THEN "start" ELSE @,
                                          !.status = "processing"]), c)

\* lines 109-125: bind to the session, start the production task if none exists
Bind(g, c, sid) ==
    LET r == Sess(g, sid)
        bound == [g EXCEPT !.conn[c].sid = sid, !.conn[c].bound = TRUE, !.conn[c].pc = "recv"]
    IN  IF sid \notin g.current_sessions
        THEN SetPc(SendError([g EXCEPT !.conn[c].sid = sid], c, SessionNotFoundText), c, "closed")
        ELSE IF r.task = "None"
             THEN SendStatus(SetSess([bound EXCEPT !.conn[c].started = TRUE], sid,
                                     [r EXCEPT !.task = "start",
                                               !.tasks_created = @ + 1,
                                               !.status = "processing"]), c)
             ELSE bound


\* ------------------------------------------------------------ actions

\* what POST /upload returns: the error of a non-MP3 name, None after the
\* swallowed exception, else the dict carrying the new session id
upload_audio_returns(filename, len, sr) ==
    IF filename # "a.mp3" THEN "Solo se permiten archivos MP3"
    ELSE IF ChunkSamples(sr) = 0 THEN "None"
    ELSE "session_id"

\* POST /upload
upload_audio(filename, len, sr) ==
    IF filename # "a.mp3"
    THEN UNCHANGED vars    \* {"error": "Solo se permiten archivos MP3"}
    ELSE \E session_id \in uuid_pool :
           /\ uuid_pool' = uuid_pool \ {session_id}
           /\ session_dirs' = session_dirs \cup {session_id}
           /\ IF ChunkSamples(sr) = 0
              THEN \* ZeroDivisionError, swallowed by `except Exception: pass`
                   UNCHANGED <<current_sessions, session, processed_audio_data>>
              ELSE /\ current_sessions' = current_sessions \cup {session_id}
                   /\ session' = [session EXCEPT ![session_id] = NewSession(len, sr)]
                   /\ processed_audio_data' =
                        [processed_audio_data EXCEPT
                           ![session_id] = [present |-> TRUE, chunks |-> <<>>]]
           /\ UNCHANGED <<conn, clients, talkers, audio_lens>>

Upload == \E filename \in FileNames, len \in audio_lens, sr \in SampleRates :
              upload_audio(filename, len, sr)

\* what GET /session/{session_id}/chunks returns: the error of an unknown
\* session, or the processed chunks
get_processed_chunks_returns(g, session_id) ==
    IF ~g.processed_audio_data[session_id].present
    THEN [error |-> SessionNotFoundText, chunks |-> <<>>]
    ELSE [error |-> "none", chunks |-> g.processed_audio_data[session_id].chunks]

\* the status code of GET /audio/{session_id}
get_audio_file_returns(g, session_id) ==
    IF session_id \notin g.current_sessions THEN 400
    ELSE IF session_id \notin g.session_dirs THEN 404
    ELSE 200

\* GET /session/{session_id}/chunks reads processed_audio_data and writes
\* nothing
get_processed_chunks(session_id) ==
    /\ get_processed_chunks_returns(State, session_id).error \in {"none", SessionNotFoundText}
    /\ UNCHANGED vars

\* GET /audio/{session_id} reads current_sessions and the directory and writes
\* nothing
get_audio_file(session_id) ==
    /\ get_audio_file_returns(State, session_id) \in {200, 400, 404}
    /\ UNCHANGED vars

\* a client opens /ws/{session_id}
Connect(c) ==
    /\ c \in clients
    /\ conn[c].pc = "idle"
    /\ \E sid \in SessionIds : Becomes(Bind(State, c, sid))

\* receive_text returns a JSON message carrying `action`
ClientActions == {"get_chunk", "get_analysis", "get_chunks_for_time",
                  "get_analysis_for_time", "none"}

ReceiveMessage(c) ==
    /\ c \in talkers
    /\ conn[c].pc = "recv"
    /\ \E action \in ClientActions : Becomes(Dispatch(State, c, action))

\* receive_text returns text json.loads rejects
ReceiveMalformed(c) ==
    /\ c \in talkers
    /\ conn[c].pc = "recv"
    /\ Becomes(HandlerExcept(State, c, JSONDecodeErrorText))

\* receive_text raises WebSocketDisconnect
ReceiveDisconnect(c) ==
    /\ conn[c].pc = "recv"
    /\ Becomes(Cleanup(State, c))

\* wait_for raises TimeoutError after 0.1 s without a message
ReceiveTimeout(c) ==
    /\ conn[c].pc = "recv"
    /\ Becomes(DrainChunks(State, c))

\* the handler is resumed at the await it is suspended at
HandlerStep(c) ==
    /\ HandlerCanResume(State, c)
    /\ Becomes(HandlerResume(State, c))

\* send_text raises because the client is gone: except, the error message
\* fails too, finally
SendFails(c) ==
    /\ conn[c].pc \in SendAwaits
    /\ Becomes(Cleanup(State, c))

\* the production task runs from its await to the next one
TaskStep(s) ==
    /\ TaskCanResume(session[s])
    /\ ~session[s].must_cancel
    /\ Becomes(TaskResume(State, s, TRUE))

\* the same, with _analyze_chunk raising on the next window
ExtractorRaises(s) ==
    /\ session[s].task \in {"start", "sleep"}
    /\ s \in current_sessions
    /\ session[s].gen_i < session[s].audio_len
    /\ ~session[s].must_cancel
    /\ Becomes(TaskResume(State, s, FALSE))

\* the cancelled task's next step
TaskCancelled(s) ==
    /\ session[s].task \in TaskAwaits
    /\ session[s].must_cancel
    /\ Becomes(TaskThrowCancelled(State, s))

InitProgram ==
    /\ current_sessions = {}
    /\ session = [s \in SessionIds |-> NoSession]
    /\ processed_audio_data = [s \in SessionIds |-> [present |-> FALSE, chunks |-> <<>>]]
    /\ session_dirs = {}
    /\ conn = [c \in Conns |-> NoConn]

\* one upload, two connections, short audio
Init ==
    /\ InitProgram
    /\ uuid_pool = {"s1"}
    /\ clients = Conns
    /\ talkers = Conns
    /\ audio_lens = 1 .. MaxSamplesShared

\* one upload, one connection, audio long enough for two analyses
SoloInit ==
    /\ InitProgram
    /\ uuid_pool = {"s1"}
    /\ clients = {"c1"}
    /\ talkers = Conns
    /\ audio_lens = 1 .. MaxSamples

Next ==
    \/ Upload
    \/ \E c \in Conns : Connect(c)
    \/ \E c \in Conns : ReceiveMessage(c)
    \/ \E c \in Conns : ReceiveMalformed(c)
    \/ \E c \in Conns : ReceiveDisconnect(c)
    \/ \E c \in Conns : ReceiveTimeout(c)
    \/ \E c \in Conns : HandlerStep(c)
    \/ \E c \in Conns : SendFails(c)
    \/ \E s \in SessionIds : TaskStep(s)
    \/ \E s \in SessionIds : ExtractorRaises(s)
    \/ \E s \in SessionIds : TaskCancelled(s)
    \/ \E s \in SessionIds : get_processed_chunks(s)
    \/ \E s \in SessionIds : get_audio_file(s)

Spec == Init /\ [][Next]_vars

SoloSpec == SoloInit /\ [][Next]_vars

\* the same with two connections, the client of the first of which never
\* sends a message (as the client of test.py)
SilentInit ==
    /\ InitProgram
    /\ uuid_pool = {"s1"}
    /\ clients = Conns
    /\ talkers = {"c2"}
    /\ audio_lens = 1 .. MaxSamplesShared

SilentSpec == SilentInit /\ [][Next]_vars

\* two uploads, so two sessions at once, and two connections, the client of
\* the second of which sends no message
PairInit ==
    /\ InitProgram
    /\ uuid_pool = SessionIds
    /\ clients = Conns
    /\ talkers = {"c1"}
    /\ audio_lens = 1 .. MaxSamplesPair

PairSpec == PairInit /\ [][Next]_vars

\* ------------------------------------------------- a lone AudioAnalyzer
\* The analyzer of session s1 alone, as constructed by AudioAnalyzer(25): the
\* extractor's records are added one by one and the patterns analysed on each.

\* amplitudes of the records
Amplitudes == {0, 1}

\* analyzer.add_chunk(chunk_data), then analyzer._analyze_patterns()
AnalyzerAddChunk(max_records, free_records) ==
    LET r == session["s1"]
        n == Len(r.full_buffer)
    IN  /\ n < max_records
        /\ \E a \in IF n < free_records THEN Amplitudes ELSE {0} :
              LET added == add_chunk(r, FeatureRecord(n, a)) IN
              session' = [session EXCEPT
                            !["s1"] = [added EXCEPT
                                         !.patterns = analyze_patterns(added.full_buffer)]]
        /\ UNCHANGED <<current_sessions, processed_audio_data, session_dirs, conn,
                       uuid_pool, clients, talkers, audio_lens>>

AnalyzerInit ==
    /\ InitProgram
    /\ uuid_pool = {}
    /\ clients = {}
    /\ talkers = {}
    /\ audio_lens = {}

WindowNext == AnalyzerAddChunk(MaxWindowRecords, MaxFreeRecords)

WindowSpec == AnalyzerInit /\ [][WindowNext]_vars

PatternNext == AnalyzerAddChunk(MaxPatternRecords, MaxPatternRecords)

PatternSpec == AnalyzerInit /\ [][PatternNext]_vars

\* amplitudes and beat strengths of the records, in tenths
Levels == {0, 10}

\* analyzer.add_chunk(chunk_data), then analyzer._make_predictions()
AnalyzerPredictChunk(max_records) ==
    LET r == session["s1"]
        n == Len(r.full_buffer)
    IN  /\ n < max_records
        /\ \E a \in Levels, b \in Levels :
              LET added == add_chunk(r, [FeatureRecord(n, a) EXCEPT !.beat_strength = b]) IN
              session' = [session EXCEPT
                            !["s1"] = [added EXCEPT
                                         !.drop_probability =
                                             make_predictions(added.window_buffer)]]
        /\ UNCHANGED <<current_sessions, processed_audio_data, session_dirs, conn,
                       uuid_pool, clients, talkers, audio_lens>>

DropNext == AnalyzerPredictChunk(MaxDropRecords)

DropSpec == AnalyzerInit /\ [][DropNext]_vars


\* ------------------------------------------------------------- claims

Range(q) == {q[i] : i \in 1 .. Len(q)}
Markers(q) == Cardinality({i \in 1 .. Len(q) : q[i].kind = "END_OF_STREAM"})

StatusForward(a, b) ==
    \/ a = b
    \/ <<a, b>> \in {<<"none", "ready">>, <<"ready", "processing">>,
                     <<"processing", "completed">>, <<"processing", "failed">>}

\* C1: in every step the status of every session stays or moves forward along
\* ready -> processing -> {completed | failed}; it never goes back to ready or
\* processing and never changes once completed or failed.
C1_StatusMonotone ==
    [][\A s \in SessionIds : StatusForward(session[s].status, session'[s].status)]_vars

\* a session is completed while a second connection is being served from it
C1_Witness ==
    \E s \in SessionIds :
        /\ session[s].status = "completed"
        /\ \A c \in Conns : conn[c].bound /\ conn[c].sid = s
        /\ \E c \in Conns : conn[c].pc = "recv"

\* C2: whenever the status of a session is completed, all its chunks are
\* processed and the task has put END_OF_STREAM on both queues.
C2_CompletedOnlyAfterProduction ==
    \A s \in SessionIds :
        session[s].status = "completed" =>
            /\ session[s].processed_chunks = session[s].total_chunks
            /\ END_OF_STREAM \in Range(session[s].chunk_puts)
            /\ END_OF_STREAM \in Range(session[s].analysis_puts)

\* C3: the progress of a session is 1.0 exactly in the states where its
\* status is completed.
C3_ProgressFullIffCompleted ==
    \A s \in SessionIds :
        session[s].status # "none" =>
            (session[s].progress[1] = session[s].progress[2]
                <=> session[s].status = "completed")

\* C4: once the production task has ended on an exception of the extractor,
\* the status of the session is failed.
C4_FailureSetsFailed ==
    \A s \in SessionIds :
        session[s].task = "finished_after_error" => session[s].status = "failed"

\* C5: a handler that takes the production task's error payload off a queue
\* sends its client an error message carrying the production failure.
C5_ErrorCarriesFailure ==
    \A c \in Conns :
        conn[c].took = "error" => ProductionFailureText \in conn[c].errors

\* what the server does by itself, and the one request of a client that only
\* ever sends get_analysis, faster than the receive timeout
ServerStep ==
    \/ \E c \in Conns : HandlerStep(c)
    \/ \E s \in SessionIds : TaskStep(s) \/ ExtractorRaises(s) \/ TaskCancelled(s)

OnlyGetAnalysis(c) ==
    /\ conn[c].pc = "recv"
    /\ Becomes(Dispatch(State, c, "get_analysis"))

SilentlyStuck(c) ==
    /\ conn[c].bound
    /\ conn[c].pc = "recv"
    /\ "completed" \notin conn[c].statuses
    /\ conn[c].errors = {}
    /\ ~ENABLED <<ServerStep \/ OnlyGetAnalysis(c)>>_vars

\* C6: no open connection is silently stuck: as long as the client has got
\* neither a completed status nor an error, the server or the client's next
\* request still changes something, whatever the client sends, in particular
\* for a client that sends only get_analysis.
C6_NeverSilentlyStuck == \A c \in Conns : ~SilentlyStuck(c)

Increasing(q, Less(_, _)) == \A i \in 1 .. Len(q) - 1 : Less(q[i], q[i + 1])
IntLess(a, b) == a < b

C8_EndAfterAllDelivered ==
    \A c \in Conns :
        conn[c].took = "END_OF_STREAM" =>
            LET r == session[conn[c].sid] IN
            /\ \A x \in Range(r.chunk_puts) :
                   x.kind = "chunk" => x.timestamp \in Range(conn[c].chunks)
            /\ \A x \in Range(r.analysis_puts) :
                   x.kind = "analysis" => x.chunks_analyzed \in Range(conn[c].analyses)

MarkerLast(puts) ==
    /\ Markers(puts) <= 1
    /\ \A i \in 1 .. Len(puts) : puts[i].kind = "END_OF_STREAM" => i = Len(puts)

\* C9: the task puts at most one END_OF_STREAM on each queue and nothing after
\* it, and when it has finished normally each queue has got exactly one, and no
\* error payload.
C9_MarkerOnceAndLast ==
    \A s \in SessionIds :
        /\ MarkerLast(session[s].chunk_puts)
        /\ MarkerLast(session[s].analysis_puts)
        /\ session[s].task = "finished" =>
              /\ Markers(session[s].chunk_puts) = 1
              /\ Markers(session[s].analysis_puts) = 1
              /\ ErrorPayload \notin Range(session[s].chunk_puts)
              /\ ErrorPayload \notin Range(session[s].analysis_puts)

\* the task has finished normally after putting chunks and an analysis
C9_Witness ==
    \E s \in SessionIds :
        /\ session[s].task = "finished"
        /\ Len(session[s].chunk_puts) >= 3
        /\ Len(session[s].analysis_puts) >= 2

\* C10: a queue never holds more than one END_OF_STREAM, and once a handler
\* has taken the marker off a queue, that queue is empty or holds the marker
\* alone.
C10_MarkerReenqueueIdempotent ==
    \A s \in SessionIds :
        /\ Markers(session[s].chunk_queue) <= 1
        /\ Markers(session[s].analysis_queue) <= 1
        /\ session[s].chunk_end_taken =>
              session[s].chunk_queue \in {<<>>, <<END_OF_STREAM>>}
        /\ session[s].analysis_end_taken =>
              session[s].analysis_queue \in {<<>>, <<END_OF_STREAM>>}

\* both markers have been taken and put back, with both connections bound
C10_Witness ==
    \E s \in SessionIds :
        /\ session[s].chunk_end_taken /\ session[s].analysis_end_taken
        /\ session[s].chunk_queue = <<END_OF_STREAM>>
        /\ session[s].analysis_queue = <<END_OF_STREAM>>
        /\ \A c \in Conns : conn[c].bound /\ conn[c].took = "END_OF_STREAM"


\* C11: over the whole life of a session at most one production task is ever
\* created, however many connections open on it and however they interleave;
\* exactly the connection that created the task moved the status from "ready"
\* to "processing", and a session that has left "ready" has its task.
Starters(s) == {c \in Conns : conn[c].started /\ conn[c].sid = s}

C11_StartIsIdempotent ==
    /\ \A s \in SessionIds :
          /\ session[s].tasks_created <= 1
          /\ Cardinality(Starters(s)) = session[s].tasks_created
          /\ session[s].status \in {"none", "ready"} <=> session[s].tasks_created = 0
          /\ session[s].task = "None" <=> session[s].tasks_created = 0
    /\ \A c \in Conns : conn[c].started => conn[c].bound /\ "processing" \in conn[c].statuses

\* two connections are bound to the same session, whose one task has ended,
\* and only one of them created a task
C11_Witness ==
    \E s \in SessionIds :
        /\ \A c \in Conns : conn[c].bound /\ conn[c].sid = s
        /\ session[s].task = "finished"
        /\ Cardinality(Starters(s)) = 1

\* C12: a call of _cleanup_session for a session id that is not registered
\* (the first call for it has returned, or it never was registered) raises
\* nothing and changes neither registry, nor the temporary directories, nor
\* the session's queues and task.  The call is the step in which a handler
\* leaves its serving loop and closes without having awaited the task.
CleanupCallOnAbsent(c) ==
    /\ conn[c].bound
    /\ conn[c].pc \notin {"closed", "cleanup_await_task"}
    /\ conn'[c].pc \in {"closed", "cleanup_await_task"}
    /\ conn[c].sid \notin current_sessions

C12_TerminateIsIdempotent ==
    [][\A c \in Conns :
          CleanupCallOnAbsent(c) =>
              /\ conn'[c].pc = "closed"
              /\ conn'[c].raised = "none"
              /\ current_sessions' = current_sessions
              /\ processed_audio_data' = processed_audio_data
              /\ session_dirs' = session_dirs
              /\ session'[conn[c].sid].task = session[conn[c].sid].task
              /\ session'[conn[c].sid].must_cancel = session[conn[c].sid].must_cancel
              /\ Len(session'[conn[c].sid].chunk_queue) >= Len(session[conn[c].sid].chunk_queue)
              /\ Len(session'[conn[c].sid].analysis_queue) >=
                     Len(session[conn[c].sid].analysis_queue)]_vars

\* both handlers of one session have closed without an error: the teardown of
\* the second ran after that of the first had returned
C12_Witness ==
    /\ \A c \in Conns : conn[c].bound /\ conn[c].pc = "closed" /\ conn[c].raised = "none"
    /\ \E s \in SessionIds : \A c \in Conns : conn[c].sid = s /\ s \notin current_sessions

\* C13: when two handlers of one session run teardown concurrently (the
\* second enters _cleanup_session while the first awaits the cancelled task),
\* neither teardown raises: the handler that finds the registry entry already
\* removed does nothing.
C13_ConcurrentTeardownNeverRaises ==
    \A c \in Conns : conn[c].raised = "none"

\* C14: whenever a handler bound to a session has left its serving loop and
\* closed, its teardown ran to the end without raising: the production task
\* is done and the session id is in neither current_sessions nor
\* processed_audio_data.
TornDown(s) ==
    /\ session[s].task \in TaskDone
    /\ s \notin current_sessions
    /\ ~processed_audio_data[s].present

C14_TeardownRunsToTheEnd ==
    \A c \in Conns :
        conn[c].bound /\ conn[c].pc = "closed" =>
            conn[c].raised = "none" /\ TornDown(conn[c].sid)

\* C15: SessionState is single-writer: every step that changes the status,
\* processed_chunks or progress of a registered session is a step of that
\* session's production task.
ProductionTaskStep(s) == TaskStep(s) \/ ExtractorRaises(s) \/ TaskCancelled(s)

SessionStateWritten(s) ==
    /\ session[s].status # "none"
    /\ \/ session'[s].status # session[s].status
       \/ session'[s].processed_chunks # session[s].processed_chunks
       \/ session'[s].progress # session[s].progress

C15_SessionStateSingleWriter ==
    [][\A s \in SessionIds : SessionStateWritten(s) => ProductionTaskStep(s)]_vars

\* C16: from the moment the production task is cancelled it writes nothing
\* more: nothing is put on either queue (no record, report, END_OF_STREAM
\* marker or error payload), nothing is added to the history or the analyzer
\* buffers, processed_chunks and progress stay, and the only change of the
\* task is that it ends as cancelled.
TaskWritesNothing(s) ==
    /\ session'[s].chunk_puts = session[s].chunk_puts
    /\ session'[s].analysis_puts = session[s].analysis_puts
    /\ session'[s].full_buffer = session[s].full_buffer
    /\ session'[s].window_buffer = session[s].window_buffer
    /\ session'[s].processed_chunks = session[s].processed_chunks
    /\ session'[s].progress = session[s].progress
    /\ session'[s].chunk_counter = session[s].chunk_counter
    /\ processed_audio_data'[s].present =>
           processed_audio_data'[s].chunks = processed_audio_data[s].chunks
    /\ session'[s].task \in {session[s].task, "cancelled"}

C16_CancelledTaskWritesNothing ==
    [][\A s \in SessionIds : session[s].must_cancel => TaskWritesNothing(s)]_vars

\* the task was cancelled while blocked in the put of the final report on a
\* full analysis queue, after six records
C16_Witness ==
    \E s \in SessionIds :
        /\ session[s].task = "cancelled"
        /\ session[s].cancelled_at = "put_final_analysis"
        /\ Len(session[s].chunk_puts) = 6

\* C17: in every reachable state neither queue holds more items than its
\* capacity (markers, error payloads and the handlers' re-enqueues included);
\* while a queue is full the producer puts nothing on it; and a handler whose
\* queues are both empty takes nothing and does not wait for an item: after
\* its step it is back at receive, or sending, or in teardown.
QueuesWithinCapacity ==
    \A s \in SessionIds :
        /\ Len(session[s].chunk_queue) <= ChunkQueueMax
        /\ Len(session[s].analysis_queue) <= AnalysisQueueMax

ProducerWaitsWhileFull(s) ==
    /\ Len(session[s].chunk_queue) >= ChunkQueueMax =>
           session'[s].chunk_puts = session[s].chunk_puts
    /\ Len(session[s].analysis_queue) >= AnalysisQueueMax =>
           session'[s].analysis_puts = session[s].analysis_puts

DequeueOnEmptyReturns(c) ==
    /\ conn[c].bound
    /\ conn[c].pc = "recv"
    /\ session[conn[c].sid].chunk_queue = <<>>
    /\ session[conn[c].sid].analysis_queue = <<>>
    /\ conn'[c] # conn[c]
    => /\ conn'[c].pc \in {"recv", "t_done", "send_error", "cleanup_await_task", "closed"}
       /\ conn'[c].took = conn[c].took
       /\ conn'[c].chunks = conn[c].chunks
       /\ conn'[c].analyses = conn[c].analyses

C17_QueuesBounded ==
    /\ []QueuesWithinCapacity
    /\ [][/\ \A s \in SessionIds : ProducerWaitsWhileFull(s)
          /\ \A c \in Conns : DequeueOnEmptyReturns(c)]_vars

\* both queues are full and the producer is blocked in the put of the marker
C17_Witness ==
    \E s \in SessionIds :
        /\ Len(session[s].chunk_queue) = ChunkQueueMax
        /\ Len(session[s].analysis_queue) = AnalysisQueueMax
        /\ session[s].task = "put_end_chunk"

\* C18: for a client that sends no requests, once production has finished
\* normally and the timeout branch of its handler has pushed everything that
\* was queued, both markers included, and announced completion, the handler has
\* ended its serving loop: it is not back at receive, waiting for the client.
EverythingPushed(c) ==
    LET r == session[conn[c].sid] IN
    /\ r.task = "finished"
    /\ r.chunk_end_taken /\ r.analysis_end_taken
    /\ Len(conn[c].chunks) + Len(conn[c].analyses) + 2 =
           Len(r.chunk_puts) + Len(r.analysis_puts)
    /\ "completed" \in conn[c].statuses

C18_SilentClientLoopEnds ==
    \A c \in Conns \ talkers :
        conn[c].bound /\ EverythingPushed(c) => conn[c].pc # "recv"

\* C19: opening a connection for a session id that is not registered sends
\* the session-not-found error and closes the connection, and changes nothing
\* else: no task is created, no session is added or removed, no session's
\* state or queues change.
OpensOnUnknown(c) ==
    /\ conn[c].pc = "idle"
    /\ conn'[c].pc # "idle"
    /\ conn'[c].sid \notin current_sessions

C19_UnknownSessionRejected ==
    [][\A c \in Conns :
          OpensOnUnknown(c) =>
              /\ conn'[c].pc = "closed"
              /\ ~conn'[c].bound /\ ~conn'[c].started
              /\ conn'[c].errors = {SessionNotFoundText}
              /\ conn'[c].statuses = {} /\ conn'[c].chunks = <<>> /\ conn'[c].analyses = <<>>
              /\ session' = session
              /\ current_sessions' = current_sessions
              /\ processed_audio_data' = processed_audio_data
              /\ session_dirs' = session_dirs
              /\ \A d \in Conns \ {c} : conn'[d] = conn[d]]_vars

\* a connection was refused on an id that never was registered while another
\* session is being produced for a bound connection
C19_Witness ==
    \E c, d \in Conns : \E s \in current_sessions :
        /\ conn[c].pc = "closed" /\ ~conn[c].bound
        /\ conn[c].errors = {SessionNotFoundText}
        /\ conn[c].sid # s /\ session[conn[c].sid].status = "none"
        /\ conn[d].bound /\ conn[d].sid = s
        /\ session[s].status = "processing"

\* C20: for every uploaded audio with a positive window length, total_chunks
\* is ceil(total samples / window samples), the number of windows the chunk
\* sequencer yields, and the number of records the production task has
\* counted when the sequencer is exhausted; 5.0 s and 5.1 s of audio at
\* 44100 Hz give 25 and 26.
CeilDiv(a, b) == CHOOSE n \in 0 .. a : n * b >= a /\ (n = 0 \/ (n - 1) * b < a)

SequencerExhausted(r) ==
    r.task \in {"put_final_analysis", "put_end_chunk", "put_end_analysis", "finished"}

C20_TotalChunksIsCeiling ==
    /\ \A s \in SessionIds :
          LET r == session[s]
              w == ChunkSamples(r.sample_rate)
          IN  r.status # "none" =>
                  /\ w > 0
                  /\ r.total_chunks = CeilDiv(r.audio_len, w)
                  /\ r.total_chunks = SequencerYields(0, r.audio_len, w)
                  /\ SequencerExhausted(r) =>
                         r.chunk_counter = r.total_chunks /\ r.gen_i >= r.audio_len
    /\ TotalChunks(220500, 44100) = 25
    /\ SequencerYields(0, 220500, ChunkSamples(44100)) = 25
    /\ TotalChunks(224910, 44100) = 26
    /\ SequencerYields(0, 224910, ChunkSamples(44100)) = 26

\* production has finished for an audio whose last window is short: five
\* samples in windows of two, three records
C20_Witness ==
    \E s \in SessionIds :
        /\ session[s].task = "finished"
        /\ session[s].audio_len = 5
        /\ ChunkSamples(session[s].sample_rate) = 2
        /\ Len(processed_audio_data[s].chunks) = 3

\* C21: in every reachable state 0 <= processed_chunks <= total_chunks;
\* processed_chunks never decreases and grows by exactly one per record (it is
\* the number of records the task has counted, and lags the history by the
\* one record whose put is pending); it equals total_chunks when production
\* finishes normally.
ProcessedWithinTotal(s) ==
    LET r == session[s] IN
    /\ 0 <= r.processed_chunks
    /\ r.processed_chunks <= r.total_chunks
    /\ r.processed_chunks <= Len(r.full_buffer)
    /\ Len(r.full_buffer) <= r.processed_chunks + 1
    /\ r.task \in {"sleep", "put_final_analysis", "put_end_chunk", "put_end_analysis",
                   "finished"} => r.processed_chunks = r.chunk_counter
    /\ r.task = "finished" => r.processed_chunks = r.total_chunks

ProcessedGrowsByOne(s) ==
    \/ session'[s].processed_chunks = session[s].processed_chunks
    \/ /\ session'[s].processed_chunks = session[s].processed_chunks + 1
       /\ session'[s].chunk_counter = session'[s].processed_chunks

C21_ProcessedChunksBounded ==
    /\ [](\A s \in SessionIds : ProcessedWithinTotal(s))
    /\ [][\A s \in SessionIds : ProcessedGrowsByOne(s)]_vars

\* production of six records has finished
C21_Witness ==
    \E s \in SessionIds :
        /\ session[s].task = "finished"
        /\ session[s].total_chunks = 6
        /\ session[s].processed_chunks = 6

\* C22: after any sequence of add_chunk calls the sliding window holds at
\* most AnalysisWindowSize (25) records, and exactly the most recent
\* min(n, 25) records of the full history in arrival order; every call adds
\* its record at the end of the full history and removes nothing from it.
WindowIsRecentHistory(s) ==
    /\ Len(session[s].window_buffer) <= AnalysisWindowSize
    /\ session[s].window_buffer = LastRecords(session[s].full_buffer, AnalysisWindowSize)

HistoryOnlyGrows(s) ==
    \/ session'[s].full_buffer = session[s].full_buffer
    \/ /\ Len(session'[s].full_buffer) = Len(session[s].full_buffer) + 1
       /\ SubSeq(session'[s].full_buffer, 1, Len(session[s].full_buffer)) =
              session[s].full_buffer

C22_SlidingWindow ==
    /\ [](\A s \in SessionIds : WindowIsRecentHistory(s))
    /\ [][\A s \in SessionIds : HistoryOnlyGrows(s)]_vars

\* 27 records have been added: the window holds the last 25 of them
C22_Witness ==
    /\ Len(session["s1"].full_buffer) = 27
    /\ Len(session["s1"].window_buffer) = 25
    /\ session["s1"].window_buffer[1] = session["s1"].full_buffer[3]

\* C23: when production of N records has finished normally, the number of
\* analysis reports enqueued before the marker is N \div 5, plus one when N is
\* not a multiple of 5.
Reports(puts) == SelectSeq(puts, LAMBDA x : x.kind = "analysis")

ExpectedReports(n) == (n \div AnalysisEvery) + (IF n % AnalysisEvery # 0 THEN 1 ELSE 0)

C23_ReportCount ==
    \A s \in SessionIds :
        session[s].task = "finished" =>
            Len(Reports(session[s].analysis_puts)) = ExpectedReports(session[s].chunk_counter)

\* C24: a "get_chunks_for_time" request (here with current_time 0 and the
\* default buffer_ahead 3.0) is answered from the full history: the handler
\* sends every record with current_time <= timestamp <= current_time + 3.0,
\* in the order of the history, and leaves both queues as they are.
ChunksInRange(history, from, to) ==
    LET in == SelectSeq(history, LAMBDA x : /\ ~TimeLess(x.timestamp, from)
                                            /\ ~TimeLess(to, x.timestamp))
    IN  [i \in 1 .. Len(in) |-> in[i].timestamp]

SentChunks(g, c) == SubSeq(g.conn[c].chunks, Len(conn[c].chunks) + 1, Len(g.conn[c].chunks))

Serving(c) == conn[c].bound /\ conn[c].pc = "recv" /\ conn[c].sid \in current_sessions

C24_ChunksForTimeAnswered ==
    \A c \in Conns :
        Serving(c) =>
            LET after == Dispatch(State, c, "get_chunks_for_time") IN
            /\ SentChunks(after, c) =
                   ChunksInRange(processed_audio_data[conn[c].sid].chunks, <<0, 1>>, <<3, 1>>)
            /\ after.session[conn[c].sid].chunk_queue = session[conn[c].sid].chunk_queue
            /\ after.session[conn[c].sid].analysis_queue = session[conn[c].sid].analysis_queue

\* C25: once a report has been produced, a "get_analysis_for_time" request
\* with current_time beyond the last report's timestamp is answered with the
\* last report (the nearest by absolute difference).
SentAnalyses(g, c) ==
    SubSeq(g.conn[c].analyses, Len(conn[c].analyses) + 1, Len(g.conn[c].analyses))

C25_AnalysisForTimeAnswered ==
    \A c \in Conns :
        LET produced == Reports(session[conn[c].sid].analysis_puts) IN
        Serving(c) /\ produced # <<>> =>
            SentAnalyses(Dispatch(State, c, "get_analysis_for_time"), c) =
                <<produced[Len(produced)].chunks_analyzed>>

\* C26: an upload that is rejected (a name that is not MP3, or a window
\* length of zero samples) returns a descriptive error and creates no
\* session: neither current_sessions nor processed_audio_data gains an entry.
Rejected(filename, sr) == filename # "a.mp3" \/ ChunkSamples(sr) = 0

C26_RejectedUploadDescribed ==
    [][\A filename \in FileNames, len \in audio_lens, sr \in SampleRates :
          upload_audio(filename, len, sr) /\ Rejected(filename, sr) =>
              /\ upload_audio_returns(filename, len, sr) \notin {"None", "session_id"}
              /\ current_sessions' = current_sessions
              /\ processed_audio_data' = processed_audio_data]_vars

\* C27: in the sequence of the end-to-end test (upload, one websocket client
\* that sends nothing, receives "completed" and closes, no other connection),
\* once the stream has ended and the handler has closed, GET
\* /session/{id}/chunks returns the processed chunks of the session and GET
\* /audio/{id} returns the audio file.
StreamEnded(c) ==
    /\ conn[c].bound
    /\ conn[c].pc = "closed"
    /\ "completed" \in conn[c].statuses
    /\ \A d \in Conns \ {c} : conn[d].pc = "idle"

C27_GetsSucceedAfterStream ==
    \A c \in Conns \ talkers :
        StreamEnded(c) =>
            /\ get_processed_chunks_returns(State, conn[c].sid).error = "none"
            /\ Len(get_processed_chunks_returns(State, conn[c].sid).chunks) =
                   session[conn[c].sid].total_chunks
            /\ get_audio_file_returns(State, conn[c].sid) = 200

\* C28: immediately after a successful upload the new session is in its
\* initial state: status "ready", progress 0.0, processed_chunks 0, both
\* queues empty, the processed-chunk history present and empty, both analyzer
\* buffers empty, and no production task.
Registers(s) == s \notin current_sessions /\ s \in current_sessions'

InitialSession(r) ==
    /\ r.status = "ready"
    /\ r.progress = <<0, 1>>
    /\ r.processed_chunks = 0
    /\ r.chunk_queue = <<>> /\ r.analysis_queue = <<>>
    /\ r.full_buffer = <<>> /\ r.window_buffer = <<>>
    /\ r.task = "None" /\ r.tasks_created = 0 /\ ~r.must_cancel
    /\ r.chunk_puts = <<>> /\ r.analysis_puts = <<>>

C28_UploadedSessionInitial ==
    [][\A s \in SessionIds :
          Registers(s) =>
              /\ InitialSession(session'[s])
              /\ processed_audio_data'[s] = [present |-> TRUE, chunks |-> <<>>]
              /\ s \in session_dirs']_vars

\* an uploaded session of two windows that no connection has opened yet
C28_Witness ==
    \E s \in current_sessions :
        /\ session[s].status = "ready"
        /\ session[s].total_chunks = 2
        /\ \A c \in Conns : conn[c].pc = "idle"

\* C29: sessions are isolated: a step that changes anything of one session
\* (its state, analyzer buffers, queues, task, history, registration or
\* directory) leaves all of that unchanged for every other session.
SessionChanged(s) ==
    \/ session'[s] # session[s]
    \/ processed_audio_data'[s] # processed_audio_data[s]
    \/ (s \in current_sessions') # (s \in current_sessions)
    \/ (s \in session_dirs') # (s \in session_dirs)

C29_SessionsIsolated ==
    [][\A s, u \in SessionIds : s # u /\ SessionChanged(s) => ~SessionChanged(u)]_vars

\* one session has been torn down with its task cancelled while the other is
\* registered, with production finished, and being served
C29_Witness ==
    \E s, u \in SessionIds :
        /\ s # u
        /\ session[s].task = "cancelled" /\ s \notin current_sessions
        /\ u \in current_sessions /\ session[u].task = "finished"
        /\ \E c \in Conns : conn[c].bound /\ conn[c].sid = u /\ conn[c].pc = "recv"

\* C30: whenever the full history holds fewer than 16 records, whatever their
\* amplitudes, pattern detection returns the empty pattern list, with
\* pattern_strength 0, cycle_length none and pattern_confidence 0.
NoPatternsBelow16(s) ==
    Len(session[s].full_buffer) < 16 =>
        /\ session[s].patterns.detected_patterns = <<>>
        /\ session[s].patterns.pattern_strength = 0
        /\ session[s].patterns.cycle_length = "None"
        /\ session[s].patterns.pattern_confidence = <<0, 1>>

C30_NoPatternsBelow16 == \A s \in SessionIds : NoPatternsBelow16(s)

\* 15 records whose amplitudes have three peaks or more have been analysed
C30_Witness ==
    LET buffer == session["s1"].full_buffer IN
    /\ Len(buffer) = 15
    /\ Len(find_peaks([i \in 1 .. 15 |-> buffer[i].amplitude])) >= 3
    /\ session["s1"].patterns.detected_patterns = <<>>

\* C31: whenever the sliding window holds at least 3 records, the predicted
\* drop probability is the sum of the indicator contributions (0.3 for a mean
\* amplitude of the last 3 records above 0.7, 0.3 for their mean beat strength
\* above 0.6, 0.4 for an energy trend above 0.2); with fewer than 3 records it
\* is 0.
C31_DropProbability ==
    \A s \in SessionIds :
        session[s].drop_probability =
            IF Len(session[s].window_buffer) >= 3
            THEN DropIndicators(session[s].window_buffer)
            ELSE 0

\* C32: in every state of a running (registered) session,
\* processed_chunks <= len(processed_audio_data[session]) = len(full_buffer)
\* <= processed_chunks + 1; a record is counted as processed only after it is
\* in both histories and was put on the chunk queue, and the reported progress
\* never runs ahead of what was enqueued.
ChunksEnqueued(s) ==
    Cardinality({i \in 1 .. Len(session[s].chunk_puts) :
                    session[s].chunk_puts[i].kind = "chunk"})

HistoriesInStep(s) ==
    LET r == session[s]
        data == processed_audio_data[s].chunks
    IN  /\ r.processed_chunks <= Len(data)
        /\ Len(data) = Len(r.full_buffer)
        /\ data = r.full_buffer
        /\ Len(r.full_buffer) <= r.processed_chunks + 1
        /\ r.processed_chunks <= ChunksEnqueued(s)
        /\ \A i \in 1 .. r.processed_chunks : r.chunk_puts[i] = data[i]
        /\ r.progress[1] <= ChunksEnqueued(s)
        /\ r.progress[1] * r.total_chunks = r.processed_chunks * r.progress[2]

C32_HistoriesInStep == \A s \in current_sessions : HistoriesInStep(s)

\* the producer waits on the full chunk queue with a record that is in both
\* histories and not yet counted, after two counted records
C32_Witness ==
    \E s \in current_sessions :
        /\ session[s].task = "put_chunk"
        /\ session[s].processed_chunks = 2
        /\ Len(processed_audio_data[s].chunks) = 3
        /\ Len(session[s].full_buffer) = 3

\* C33: every analysis report is enqueued only after the record that
\* triggered it is in the history and was put on the chunk queue; it carries
\* that record's timestamp, chunks_analyzed equal to the number of records
\* produced so far, buffer_size = chunks_analyzed and analysis_window_size =
\* min(chunks_analyzed, 25); chunks_analyzed is a multiple of 5 or the total
\* record count.
Min(a, b) == IF a <= b THEN a ELSE b

ReportWellFormed(s, m) ==
    LET r == session[s]
        n == m.chunks_analyzed
    IN  /\ 1 <= n
        /\ n <= Len(r.full_buffer)
        /\ n <= ChunksEnqueued(s)
        /\ m.timestamp = r.full_buffer[n].timestamp
        /\ \E i \in 1 .. Len(r.chunk_puts) :
              r.chunk_puts[i].kind = "chunk" /\ r.chunk_puts[i].timestamp = m.timestamp
        /\ m.buffer_size = n
        /\ m.analysis_window_size = Min(n, AnalysisWindowSize)
        /\ n % AnalysisEvery = 0 \/ n = r.total_chunks

ReportsWellFormed(s) ==
    \A i \in 1 .. Len(session[s].analysis_puts) :
        session[s].analysis_puts[i].kind = "analysis"
            => ReportWellFormed(s, session[s].analysis_puts[i])

\* a report newly enqueued counts the records produced up to this step
ReportCountsAllRecords(s) ==
    LET before == session[s].analysis_puts
        after == session'[s].analysis_puts
    IN  \A i \in (Len(before) + 1) .. Len(after) :
            after[i].kind = "analysis" =>
                /\ after[i].chunks_analyzed = Len(session'[s].full_buffer)
                /\ after[i].chunks_analyzed = session'[s].chunk_counter
                /\ after[i].timestamp =
                       session'[s].full_buffer[Len(session'[s].full_buffer)].timestamp

\* the analyzer after n add_chunk calls, and the sizes its report carries,
\* also past the 25 records the window keeps
RECURSIVE AnalyzerAfter(_)
AnalyzerAfter(n) ==
    IF n = 0 THEN NoSession ELSE add_chunk(AnalyzerAfter(n - 1), FeatureRecord(n - 1, 0))

ReportSizes ==
    \A n \in 2 .. MaxWindowRecords :
        LET rel == analyze_relationships(AnalyzerAfter(n)) IN
        /\ ~rel.none
        /\ rel.buffer_size = n
        /\ rel.analysis_window_size = Min(n, AnalysisWindowSize)

C33_ReportsFollowTheirRecord ==
    /\ [](ReportSizes /\ \A s \in SessionIds : ReportsWellFormed(s))
    /\ [][\A s \in SessionIds : ReportCountsAllRecords(s)]_vars

\* a report after 5 records and the final report after 6 were enqueued
C33_Witness ==
    \E s \in SessionIds :
        LET reports == Reports(session[s].analysis_puts) IN
        /\ Len(reports) = 2
        /\ reports[1].chunks_analyzed = 5
        /\ reports[2].chunks_analyzed = 6
        /\ session[s].total_chunks = 6

\* C34: a handler's re-enqueue of a dequeued END_OF_STREAM marker never
\* blocks: whenever a handler holds a marker it has taken off a queue, that
\* queue has a free slot, the handler is never suspended inside the put, and
\* its next step is enabled, whatever the producer and the other connections
\* do.
HoldsChunkMarker == {"t_end_chunk", "req_end_chunk"}

HoldsAnalysisMarker == {"t_end_analysis", "req_end_analysis"}

BlockedInPutBack == {"t_put_end_chunk", "req_put_end_chunk",
                     "t_put_end_analysis", "req_put_end_analysis"}

C34_PutBackNeverBlocks ==
    \A c \in Conns :
        LET r == session[conn[c].sid] IN
        /\ conn[c].pc \notin BlockedInPutBack
        /\ conn[c].pc \in HoldsChunkMarker =>
              /\ ~Full(r.chunk_queue, ChunkQueueMax)
              /\ HandlerCanResume(State, c)
              /\ Conn(HandlerResume(State, c), c).pc \notin BlockedInPutBack
        /\ conn[c].pc \in HoldsAnalysisMarker =>
              /\ ~Full(r.analysis_queue, AnalysisQueueMax)
              /\ HandlerCanResume(State, c)
              /\ Conn(HandlerResume(State, c), c).pc \notin BlockedInPutBack

\* a handler holds the marker of the chunk queue while the producer still
\* waits to put the marker on the full analysis queue and another connection
\* is served from the same session
C34_Witness ==
    \E c \in Conns, d \in Conns :
        /\ c # d
        /\ conn[c].pc \in HoldsChunkMarker
        /\ conn[d].bound /\ conn[d].sid = conn[c].sid /\ conn[d].pc = "recv"
        /\ session[conn[c].sid].task = "put_end_analysis"

\* C35: each client request has a bounded, local effect: a get_chunk request
\* removes at most one item from the chunk queue and leaves the analysis queue
\* unchanged, a get_analysis request removes at most one item from the
\* analysis queue and leaves the chunk queue unchanged, a request on an empty
\* queue sends nothing and changes nothing, and a request with an unrecognised
\* or missing action changes nothing at all.
AtMostHeadRemoved(before, after) ==
    \/ after = before
    \/ before # <<>> /\ after = Tail(before)

RequestIsLocal(c, action) ==
    LET sid == conn[c].sid
        r == session[sid]
        g == Dispatch(State, c, action)
        after == g.session[sid]
    IN  /\ action = "get_chunk" =>
              /\ AtMostHeadRemoved(r.chunk_queue, after.chunk_queue)
              /\ after.analysis_queue = r.analysis_queue
              /\ r.chunk_queue = <<>> => g = State
        /\ action = "get_analysis" =>
              /\ AtMostHeadRemoved(r.analysis_queue, after.analysis_queue)
              /\ after.chunk_queue = r.chunk_queue
              /\ r.analysis_queue = <<>> => g = State
        /\ action \notin {"get_chunk", "get_analysis"} => g = State
        /\ \A s \in SessionIds \ {sid} : g.session[s] = session[s]
        /\ g.processed_audio_data = processed_audio_data

\* the rest of a request that took a marker or a report: the marker goes back
\* on its own queue, the status message touches no queue
RequestTailIsLocal(c) ==
    LET sid == conn[c].sid
        r == session[sid]
        after == HandlerResume(State, c).session[sid]
    IN  /\ conn[c].pc = "req_end_chunk" =>
              /\ after.chunk_queue = Append(r.chunk_queue, END_OF_STREAM)
              /\ after.analysis_queue = r.analysis_queue
        /\ conn[c].pc = "req_end_analysis" =>
              /\ after.analysis_queue = Append(r.analysis_queue, END_OF_STREAM)
              /\ after.chunk_queue = r.chunk_queue
        /\ conn[c].pc = "req_send_status" =>
              /\ after.chunk_queue = r.chunk_queue
              /\ after.analysis_queue = r.analysis_queue

C35_RequestsAreLocal ==
    \A c \in Conns :
        /\ conn[c].pc = "recv" => \A action \in ClientActions : RequestIsLocal(c, action)
        /\ RequestTailIsLocal(c)

\* a client that sends requests is served while both queues hold an item: its
\* get_chunk sends the chunk at the head, its get_analysis the report
C35_Witness ==
    \E c \in talkers :
        LET r == session[conn[c].sid] IN
        /\ conn[c].pc = "recv"
        /\ r.chunk_queue # <<>> /\ Head(r.chunk_queue).kind = "chunk"
        /\ r.analysis_queue # <<>> /\ Head(r.analysis_queue).kind = "analysis"
        /\ Dispatch(State, c, "get_chunk").conn[c].chunks # conn[c].chunks
        /\ Dispatch(State, c, "get_analysis").conn[c].analyses # conn[c].analyses

\* C36: while a connection handler is in its serving loop for a session (here:
\* waiting for the next message), the session is registered in
\* current_sessions and processed_audio_data, and its production task has
\* not been cancelled: no teardown of another connection has touched it.
InServingLoop(c) == conn[c].bound /\ conn[c].pc = "recv"

C36_ServedSessionStaysRegistered ==
    \A c \in Conns :
        InServingLoop(c) =>
            /\ conn[c].sid \in current_sessions
            /\ processed_audio_data[conn[c].sid].present
            /\ ~session[conn[c].sid].must_cancel
            /\ session[conn[c].sid].task # "cancelled"

====
